---------------------------- MODULE Spec2Model ----------------------------
(***************************************************************************)
(* Model of the rsbl provisioning scripts:                                 *)
(*   scripts/download_external_deps.py  (download_dependencies and the     *)
(*       archive extraction it drives), and                                *)
(*   scripts/download_assets.py         (download_assets), and             *)
(*   scripts/setup_git_subtrees.py      (GitSubtreeManager).               *)
(*                                                                         *)
(* A path is a sequence of segments.  A directory tree is a function from  *)
(* the paths present in it to what is there: DirMark for a directory, the  *)
(* bytes of the file otherwise.  The bytes of an archive member are        *)
(* modelled by a value that is unique to the member (its stored path).     *)
(*                                                                         *)
(* What the environment decides is a nondeterministic choice: whether a    *)
(* download succeeds, what the listing request answers, and whether this   *)
(* CPython's TarFile.makedir passes over an existing file (3.11) or raises.*)
(* A listing that is a list is one of the GitHub contents API: each member *)
(* is an object with a 'type' and a 'name'.  A git command is a black box  *)
(* that answers with an exit code; a subtree add that succeeds creates the *)
(* prefix directory, a git command that fails changes nothing.             *)
(* Every manifest entry has a name, and names are plain: no entry's        *)
(* destination is another entry's staging directory.  Archive members are  *)
(* regular files and directories with distinct relative paths, none below  *)
(* a file member.                                                          *)
(***************************************************************************)
EXTENDS Integers, Sequences, FiniteSets

MaxMembers == 3      \* longest archive drawn for a direct extraction
MaxStrip == 2        \* largest strip_components drawn for a direct extraction
MaxEntries == 2      \* longest manifest drawn
MaxRuns == 2         \* number of successive runs of download_dependencies

VARIABLES
    script,            \* which entry point runs: "deps", "assets" or "extract"
    pc,                \* position in the code
    toml,              \* the manifest file: "absent", "invalid" or "ok"
    dependencies,      \* config.get('dependencies', [])
    i,                 \* the for loop's 1-based index
    failed_deps,       \* download_dependencies: names of the failed entries
    external,          \* external/<name>: [exists, tree] per dependency name
    temp_dirs,         \* names n whose staging directory external/.<n>_download exists
    dest_dir,          \* download_dependency / extract_archive: name of the destination
    archive_name,      \* dot-separated parts of the staged file's name
    staged,            \* the members of the archive file at archive_path, in archive order
    members,           \* extract_zip / extract_tar: the archive's members, in archive order
    strip_components,  \* extract_*: number of leading segments to drop
    mi,                \* extract_*: index of the next member of the for loop
    extract_ret,       \* extract_archive's return value: "none", "true" or "false"
    dd_ret,            \* download_dependency's return value: "none", "true" or "false"
    total,             \* the summary's total
    succeeded,         \* the summary's succeeded count
    exit_code,         \* the script's return value: "none", "0" or "1"
    assets,            \* config.get('assets', [])
    failed_assets,     \* download_assets: names of the failed entries
    sample_assets,     \* sample_assets/<category>/<name>: [exists, tree] per destination
    assets_dir,        \* whether sample_assets/ exists
    asset_dest_dir,    \* download_assets: <<category, name>> of the current destination
    files,             \* download_gltf_directory: the listing
    fi,                \* download_gltf_directory: index of the next listing member
    success,           \* download_gltf_directory: its success flag
    listing,           \* history: how this call's listing request ended
    fetched,           \* history: this call's member fetches, [name, ok]
    net,               \* history: every network request of this run, [idx, kind, name]
    outcomes,          \* history: what happened to each entry of this run, [idx, name, result]
    run,               \* the number of this run of the script
    past,              \* history: the earlier runs' outcomes, [run, name, result]
    update,            \* setup_all_subtrees: its update argument
    config_file,       \* subtrees.json: "absent", "invalid" or "ok"
    subtrees,          \* config.get("subtrees", [])
    prefixes,          \* the prefix directories that exist under repo_root
    success_count,     \* setup_all_subtrees: its success count
    git_log,           \* history: every git command run, [idx, cmd, res]
    returns            \* history: what add_subtree / update_subtree returned, [idx, ret]

extractVars == <<archive_name, staged, members, strip_components, mi, extract_ret>>

depsVars == <<dependencies, failed_deps, temp_dirs, dd_ret>>

gltfVars == <<files, fi, success, listing, fetched>>

assetsVars == <<assets, failed_assets, sample_assets, assets_dir, asset_dest_dir>>

summaryVars == <<total, succeeded, exit_code>>

runVars == <<run, past>>

gitVars == <<update, config_file, subtrees, prefixes, success_count, git_log, returns>>

vars == <<script, pc, toml, i, external, dest_dir, extractVars, depsVars, gltfVars,
          assetsVars, summaryVars, net, outcomes, runVars, gitVars>>

-----------------------------------------------------------------------------
(* Paths and directory trees *)

DirMark == <<>>

EmptyTree == [p \in {} |-> DirMark]

Names == {"n1", "n2"}

Prefixes(p) == {SubSeq(p, 1, n) : n \in 1..Len(p)}

Parent(p) == SubSeq(p, 1, Len(p) - 1)

IsFile(t, p) == p \in DOMAIN t /\ t[p] # DirMark

\* the root of the tree is the destination directory itself
IsDir(t, p) == p = <<>> \/ (p \in DOMAIN t /\ t[p] = DirMark)

Put(t, ps, v) == [q \in DOMAIN t \cup ps |-> IF q \in ps THEN v ELSE t[q]]

\* Path.mkdir(parents=True, exist_ok=True): fails when the path or one of its
\* ancestors is a file, and then changes nothing
MkdirOk(t, p) == \A q \in Prefixes(p) : ~IsFile(t, q)

MkdirTree(t, p) == Put(t, Prefixes(p), DirMark)

\* open(target_path, 'wb'): fails on a directory, or below a file
OpenOk(t, p) == IsDir(t, Parent(p)) /\ ~IsDir(t, p)

-----------------------------------------------------------------------------
(* Archive Normalizer: extract_zip, extract_tar *)

\* member.split('/'): zipfile stores a directory entry with a trailing '/', which
\* splits into a last empty part
ZipParts(m) == IF m.isdir THEN Append(m.path, "") ELSE m.path

\* member.name.split('/'): tarfile stores a directory without the trailing '/'
TarParts(m) == m.path

\* parts[0:]: nothing is stripped
StripPartsNone(parts, k) == parts

\* parts[strip_components:]
StripParts(parts, k) == SubSeq(parts, k + 1, Len(parts))

\* not '/'.join(parts)
JoinsToEmpty(parts) == parts = <<>> \/ parts = <<"">>

\* dest_dir / basename(new_path): the member is flattened into the destination
TargetPathFlat(parts) ==
    LET p == SelectSeq(parts, LAMBDA seg : seg # "") IN SubSeq(p, Len(p), Len(p))

\* dest_dir / new_path, os.path.join(dest_dir, name): an empty last part names
\* the same path
TargetPath(parts) == SelectSeq(parts, LAMBDA seg : seg # "")

Raised(t) == [ok |-> FALSE, tree |-> t]

Done(t) == [ok |-> TRUE, tree |-> t]

\* one iteration of extract_zip's for loop on tree t
ZipExtractMember(t, m, k) ==
    LET parts == ZipParts(m)
        new_path == StripParts(parts, k)
        target_path == TargetPath(new_path)
    IN  IF Len(parts) <= k THEN Done(t)
        ELSE IF JoinsToEmpty(new_path) THEN Done(t)
        ELSE IF parts[Len(parts)] = ""
             THEN IF MkdirOk(t, target_path)
                  THEN Done(MkdirTree(t, target_path))
                  ELSE Raised(t)
        ELSE IF ~MkdirOk(t, Parent(target_path)) THEN Raised(t)
        ELSE LET t2 == MkdirTree(t, Parent(target_path))
             IN  IF OpenOk(t2, target_path)
                 THEN Done(Put(t2, {target_path}, m.data))
                 ELSE Raised(t2)

\* TarFile.extract(member, dest_dir) for a regular file or a directory member.
\* lenient: whether this CPython's TarFile.makedir passes over a
\* FileExistsError when the target is a file (it does up to 3.11) or raises.
TarExtract(t, target, m, lenient) ==
    LET upper == Parent(target)
        upperExists == upper = <<>> \/ upper \in DOMAIN t
    IN  IF ~upperExists /\ ~MkdirOk(t, upper) THEN Raised(t)
        ELSE LET t2 == IF upperExists THEN t ELSE MkdirTree(t, upper)
             IN  IF m.isdir
                 THEN IF IsFile(t2, upper) THEN Raised(t2)
                      ELSE IF target \notin DOMAIN t2
                           THEN Done(Put(t2, {target}, DirMark))
                      ELSE IF IsDir(t2, target) \/ lenient THEN Done(t2)
                      ELSE Raised(t2)
                 ELSE IF OpenOk(t2, target)
                      THEN Done(Put(t2, {target}, m.data))
                      ELSE Raised(t2)

\* one iteration of extract_tar's for loop on tree t
TarExtractMember(t, m, k, lenient) ==
    LET parts == TarParts(m)
        new_path == StripParts(parts, k)
    IN  IF Len(parts) <= k THEN Done(t)
        ELSE IF JoinsToEmpty(new_path) THEN Done(t)
        ELSE TarExtract(t, TargetPath(new_path), m, lenient)

RECURSIVE ZipExtractAll(_, _, _)
\* extract_zip's for loop over the members ms, from tree t: the loop ends at the
\* first member that raises
ZipExtractAll(t, ms, k) ==
    IF ms = <<>> THEN Done(t)
    ELSE LET r == ZipExtractMember(t, Head(ms), k)
         IN  IF r.ok THEN ZipExtractAll(r.tree, Tail(ms), k) ELSE r

RECURSIVE TarExtractAll(_, _, _, _)
\* extract_tar's for loop over the members ms, from tree t
TarExtractAll(t, ms, k, lenient) ==
    IF ms = <<>> THEN Done(t)
    ELSE LET r == TarExtractMember(t, Head(ms), k, lenient)
         IN  IF r.ok THEN TarExtractAll(r.tree, Tail(ms), k, lenient) ELSE r

\* any name with a suffix is taken for a zip archive
IsZipNameLoose(n) == Len(n) >= 2

\* archive_path.suffix == '.zip' or archive_path.name.endswith('.zip')
IsZipName(n) == Len(n) >= 2 /\ n[Len(n)] = "zip"

\* archive_path.name.endswith('.tar.gz') or archive_path.name.endswith('.tgz')
IsTarName(n) ==
    \/ Len(n) >= 3 /\ n[Len(n) - 1] = "tar" /\ n[Len(n)] = "gz"
    \/ Len(n) >= 2 /\ n[Len(n)] = "tgz"


-----------------------------------------------------------------------------
(* The environment: manifests, URLs and what the servers hold *)

File(path) == [path |-> path, isdir |-> FALSE, data |-> path]

Dir(path) == [path |-> path, isdir |-> TRUE, data |-> DirMark]

\* A URL is its text split on '/', each segment split on '.'.
NoUrl == <<>>                       \* the key is absent: dep.get('url') is None

EmptyUrl == << <<"">> >>            \* url = ''

UrlZip == << <<"https:">>, <<"">>, <<"h">>, <<"pkg", "zip">> >>

UrlTar == << <<"https:">>, <<"">>, <<"h">>, <<"pkg", "tar", "gz">> >>

UrlRar == << <<"https:">>, <<"">>, <<"h">>, <<"pkg", "rar">> >>

UrlDir == << <<"https:">>, <<"">>, <<"h">>, <<"dl">>, <<"">> >>   \* ends in '/'

\* a release archive wrapped in one top directory
ArchiveWrapped == << Dir(<<"w">>), File(<<"w", "a">>), File(<<"w", "s", "b">>) >>

\* an archive with two top directories
ArchiveTwoRoots == << File(<<"w", "a">>), File(<<"v", "a", "b">>) >>

ArchiveFlat == << File(<<"a">>) >>

\* the archive a successful download of url stores at archive_path
Served(url) ==
    CASE url = UrlZip -> ArchiveWrapped
      [] url = UrlTar -> ArchiveTwoRoots
      [] OTHER -> ArchiveFlat

DepCatalogue ==
    { [name |-> "n1", url |-> UrlZip,   enabled |-> "unset", strip_components |-> 1],
      [name |-> "n2", url |-> UrlTar,   enabled |-> "true",  strip_components |-> 1],
      [name |-> "n2", url |-> UrlTar,   enabled |-> "unset", strip_components |-> 0],
      [name |-> "n1", url |-> NoUrl,    enabled |-> "unset", strip_components |-> 0],
      [name |-> "n2", url |-> EmptyUrl, enabled |-> "true",  strip_components |-> 0],
      [name |-> "n1", url |-> UrlRar,   enabled |-> "unset", strip_components |-> 0],
      [name |-> "n2", url |-> UrlZip,   enabled |-> "false", strip_components |-> 1],
      [name |-> "n1", url |-> UrlDir,   enabled |-> "unset", strip_components |-> 0] }

UrlGlb == << <<"https:">>, <<"">>, <<"h">>, <<"logo", "glb">> >>

UrlTree == << <<"https:">>, <<"">>, <<"github", "com">>, <<"u">>, <<"r">>, <<"tree">>,
              <<"main">>, <<"Models">>, <<"Box">> >>

AssetCatalogue ==
    { [name |-> "n1", url |-> UrlGlb,   type |-> "unset", category |-> "unset"],
      [name |-> "n2", url |-> UrlTree,  type |-> "gltf",  category |-> "models"],
      [name |-> "n1", url |-> NoUrl,    type |-> "glb",   category |-> "unset"],
      [name |-> "n2", url |-> EmptyUrl, type |-> "gltf",  category |-> "models"],
      [name |-> "n1", url |-> UrlGlb,   type |-> "fbx",   category |-> "unset"],
      [name |-> "n2", url |-> UrlGlb,   type |-> "gltf",  category |-> "models"] }

\* what the listing request can answer: an error, JSON that is no list, or a list
Responses ==
    { [kind |-> "error", files |-> <<>>],
      [kind |-> "notlist", files |-> <<>>],
      [kind |-> "list", files |-> <<>>],
      [kind |-> "list",
       files |-> << [name |-> <<"scene", "gltf">>, type |-> "file"],
                    [name |-> <<"textures">>, type |-> "dir"],
                    [name |-> <<"scene", "bin">>, type |-> "file"] >>],
      [kind |-> "list",
       files |-> << [name |-> <<"ext">>, type |-> "submodule"],
                    [name |-> <<"scene", "gltf">>, type |-> "file"] >>] }

SeqsUpTo(S, n) == UNION {[1..k -> S] : k \in 0..n}

OldTree == [p \in {<<"old">>} |-> <<"old">>]

\* file names under sample_assets are split on '.'
OldAssetTree == [p \in {<< <<"old", "bin">> >>} |-> <<"old">>]

\* a destination directory before the run: absent, empty, or already populated
DirStates ==
    { [exists |-> FALSE, tree |-> EmptyTree],
      [exists |-> TRUE, tree |-> EmptyTree],
      [exists |-> TRUE, tree |-> OldTree] }

AssetDirStates ==
    { [exists |-> FALSE, tree |-> EmptyTree],
      [exists |-> TRUE, tree |-> EmptyTree],
      [exists |-> TRUE, tree |-> OldAssetTree] }

-----------------------------------------------------------------------------
(* extract_archive and the member loops, one step per member *)

Tree == external[dest_dir].tree

SetTree(t) == [external EXCEPT ![dest_dir].tree = t]

ExtractArchive ==
    /\ pc = "extract_archive"
    /\ IF IsZipName(archive_name)
       THEN pc' = "extract_zip" /\ members' = staged /\ mi' = 1
            /\ extract_ret' = extract_ret
       ELSE IF IsTarName(archive_name)
       THEN pc' = "extract_tar" /\ members' = staged /\ mi' = 1
            /\ extract_ret' = extract_ret
       ELSE pc' = "extract_return" /\ extract_ret' = "false"
            /\ UNCHANGED <<members, mi>>
    /\ UNCHANGED <<script, runVars, gitVars, toml, i, external, dest_dir, archive_name, staged,
                   strip_components, depsVars, gltfVars, assetsVars, summaryVars,
                   net, outcomes>>

MemberStep(r) ==
    /\ external' = SetTree(r.tree)
    /\ IF r.ok
       THEN mi' = mi + 1 /\ UNCHANGED <<pc, extract_ret>>
       ELSE pc' = "extract_return" /\ extract_ret' = "false" /\ mi' = mi
    /\ UNCHANGED <<script, runVars, gitVars, toml, i, dest_dir, archive_name, staged, members,
                   strip_components, depsVars, gltfVars, assetsVars, summaryVars,
                   net, outcomes>>

LoopReturn ==
    /\ mi > Len(members)
    /\ pc' = "extract_return"
    /\ extract_ret' = "true"
    /\ UNCHANGED <<script, runVars, gitVars, toml, i, external, dest_dir, archive_name, staged, members,
                   strip_components, mi, depsVars, gltfVars, assetsVars, summaryVars,
                   net, outcomes>>

ZipMember ==
    /\ pc = "extract_zip"
    /\ mi <= Len(members)
    /\ MemberStep(ZipExtractMember(Tree, members[mi], strip_components))

ZipReturn == pc = "extract_zip" /\ LoopReturn

TarMember ==
    /\ pc = "extract_tar"
    /\ mi <= Len(members)
    /\ \E lenient \in BOOLEAN :
           MemberStep(TarExtractMember(Tree, members[mi], strip_components, lenient))

TarReturn == pc = "extract_tar" /\ LoopReturn

\* extract_archive called on its own returns to its caller
ExtractFinished ==
    /\ script = "extract"
    /\ pc = "extract_return"
    /\ pc' = "done"
    /\ UNCHANGED <<script, runVars, gitVars, toml, i, external, dest_dir, extractVars, depsVars, gltfVars,
                   assetsVars, summaryVars, net, outcomes>>

-----------------------------------------------------------------------------
(* download_dependencies and download_dependency *)

\* the enabled flag is not consulted: every entry is processed
enabled_depsAll == dependencies

\* [d for d in dependencies if d.get('enabled', True)]
enabled_deps == SelectSeq(dependencies, LAMBDA d : d.enabled # "false")

\* url is None
NotUrlNone(url) == url = NoUrl

\* not url
NotUrl(url) == url = NoUrl \/ url = EmptyUrl

dep == enabled_deps[i]

Outcome(name, result) == [idx |-> i, name |-> name, result |-> result]

DepsLoad ==
    /\ script = "deps"
    /\ pc = "load"
    /\ IF toml # "ok"
       THEN exit_code' = "1" /\ pc' = "done"
       ELSE IF dependencies = <<>> \/ enabled_deps = <<>>
       THEN exit_code' = "0" /\ pc' = "done"
       ELSE exit_code' = exit_code /\ pc' = "loop"
    /\ failed_deps' = <<>>
    /\ i' = 1
    /\ UNCHANGED <<script, runVars, gitVars, toml, external, dest_dir, extractVars, dependencies, temp_dirs,
                   dd_ret, gltfVars, assetsVars, total, succeeded, net, outcomes>>

\* no url, record the failure and return 1
DepsNoUrlAbort ==
    /\ script = "deps"
    /\ pc = "loop"
    /\ i <= Len(enabled_deps)
    /\ NotUrl(dep.url)
    /\ failed_deps' = Append(failed_deps, dep.name)
    /\ outcomes' = Append(outcomes, Outcome(dep.name, "no_url"))
    /\ exit_code' = "1"
    /\ pc' = "done"
    /\ UNCHANGED <<script, runVars, gitVars, toml, i, external, dest_dir, extractVars, dependencies,
                   temp_dirs, dd_ret, gltfVars, assetsVars, total, succeeded, net>>

\* lines 246-250: no url, record the failure and continue
DepsNoUrl ==
    /\ script = "deps"
    /\ pc = "loop"
    /\ i <= Len(enabled_deps)
    /\ NotUrl(dep.url)
    /\ failed_deps' = Append(failed_deps, dep.name)
    /\ outcomes' = Append(outcomes, Outcome(dep.name, "no_url"))
    /\ i' = i + 1
    /\ UNCHANGED <<script, runVars, gitVars, pc, toml, external, dest_dir, extractVars, dependencies,
                   temp_dirs, dd_ret, gltfVars, assetsVars, summaryVars, net>>

\* line 254: the call of download_dependency
DepsCall ==
    /\ script = "deps"
    /\ pc = "loop"
    /\ i <= Len(enabled_deps)
    /\ ~NotUrl(dep.url)
    /\ dest_dir' = dep.name
    /\ strip_components' = dep.strip_components
    /\ dd_ret' = "none"
    /\ pc' = "dd_check"
    /\ UNCHANGED <<script, runVars, gitVars, toml, i, external, archive_name, staged, members, mi,
                   extract_ret, dependencies, failed_deps, temp_dirs, gltfVars,
                   assetsVars, summaryVars, net, outcomes>>

\* dest_dir.exists()
AlreadyExistsOnly(d) == d.exists

\* dest_dir.exists() and any(dest_dir.iterdir())
AlreadyExists(d) == d.exists /\ DOMAIN d.tree # {}

\* lines 159-161
DDExists ==
    /\ pc = "dd_check"
    /\ AlreadyExists(external[dest_dir])
    /\ dd_ret' = "true"
    /\ outcomes' = Append(outcomes, Outcome(dest_dir, "cached"))
    /\ pc' = "dd_return"
    /\ UNCHANGED <<script, runVars, gitVars, toml, i, external, dest_dir, extractVars, dependencies,
                   failed_deps, temp_dirs, gltfVars, assetsVars, summaryVars, net>>

\* url.split('/')[-1], or f"{name}.zip" when that is empty
ArchiveName(name, url) ==
    IF url[Len(url)] = <<"">> THEN <<name, "zip">> ELSE url[Len(url)]

\* lines 164-172
DDMkTemp ==
    /\ pc = "dd_check"
    /\ ~AlreadyExists(external[dest_dir])
    /\ temp_dirs' = temp_dirs \cup {dest_dir}
    /\ archive_name' = ArchiveName(dest_dir, dep.url)
    /\ pc' = "dd_download"
    /\ UNCHANGED <<script, runVars, gitVars, toml, i, external, dest_dir, staged, members,
                   strip_components, mi, extract_ret, dependencies, failed_deps, dd_ret,
                   gltfVars, assetsVars, summaryVars, net, outcomes>>

\* lines 175-176: download_file either stores the archive or returns False
DDDownload ==
    /\ pc = "dd_download"
    /\ net' = Append(net, [idx |-> i, kind |-> "archive", name |-> archive_name])
    /\ \E ok \in BOOLEAN :
          IF ok
          THEN /\ staged' = Served(dep.url)
               /\ pc' = "dd_mkdir"
               /\ UNCHANGED <<dd_ret, outcomes>>
          ELSE /\ dd_ret' = "false"
               /\ outcomes' = Append(outcomes, Outcome(dest_dir, "download_failed"))
               /\ pc' = "dd_finally"
               /\ staged' = staged
    /\ UNCHANGED <<script, runVars, gitVars, toml, i, external, dest_dir, archive_name, members,
                   strip_components, mi, extract_ret, dependencies, failed_deps,
                   temp_dirs, gltfVars, assetsVars, summaryVars>>

\* line 179 and the call of extract_archive at line 182
DDMkdirDest ==
    /\ pc = "dd_mkdir"
    /\ external' = [external EXCEPT ![dest_dir].exists = TRUE]
    /\ extract_ret' = "none"
    /\ pc' = "extract_archive"
    /\ UNCHANGED <<script, runVars, gitVars, toml, i, dest_dir, archive_name, staged, members,
                   strip_components, mi, depsVars, gltfVars, assetsVars, summaryVars,
                   net, outcomes>>

\* lines 182-185
DDAfterExtract ==
    /\ script = "deps"
    /\ pc = "extract_return"
    /\ dd_ret' = extract_ret
    /\ outcomes' = Append(outcomes, Outcome(dest_dir,
                       IF extract_ret = "true" THEN "ok" ELSE "extract_failed"))
    /\ pc' = "dd_finally"
    /\ UNCHANGED <<script, runVars, gitVars, toml, i, external, dest_dir, extractVars, dependencies,
                   failed_deps, temp_dirs, gltfVars, assetsVars, summaryVars, net>>

\* the staging directory is left behind
RemoveTempNot(dirs, name) == dirs

\* shutil.rmtree(temp_dir)
RemoveTemp(dirs, name) == dirs \ {name}

\* lines 187-190
DDFinally ==
    /\ pc = "dd_finally"
    /\ temp_dirs' = RemoveTemp(temp_dirs, dest_dir)
    /\ staged' = <<>>
    /\ pc' = "dd_return"
    /\ UNCHANGED <<script, runVars, gitVars, toml, i, external, dest_dir, archive_name, members,
                   strip_components, mi, extract_ret, dependencies, failed_deps, dd_ret,
                   gltfVars, assetsVars, summaryVars, net, outcomes>>

\* failed_deps.insert(0, name)
FailedAfterCallFront(failed, ret, name) ==
    IF ret = "false" THEN <<name>> \o failed ELSE failed

\* lines 254-255: if not download_dependency(...): failed_deps.append(name)
FailedAfterCall(failed, ret, name) ==
    IF ret = "false" THEN Append(failed, name) ELSE failed

\* lines 254-257
DepsAfterCall ==
    /\ pc = "dd_return"
    /\ failed_deps' = FailedAfterCall(failed_deps, dd_ret, dep.name)
    /\ i' = i + 1
    /\ pc' = "loop"
    /\ UNCHANGED <<script, runVars, gitVars, toml, external, dest_dir, extractVars, dependencies,
                   temp_dirs, dd_ret, gltfVars, assetsVars, summaryVars, net, outcomes>>

\* return 0
ExitCodeZero(failed) == "0"

\* return 0 if not failed_deps else 1
ExitCode(failed) == IF failed = <<>> THEN "0" ELSE "1"

\* lines 263-276
DepsSummary ==
    /\ script = "deps"
    /\ pc = "loop"
    /\ i > Len(enabled_deps)
    /\ total' = Len(enabled_deps)
    /\ succeeded' = total' - Len(failed_deps)
    /\ exit_code' = ExitCode(failed_deps)
    /\ pc' = "done"
    /\ UNCHANGED <<script, runVars, gitVars, toml, i, external, dest_dir, extractVars, depsVars, gltfVars,
                   assetsVars, net, outcomes>>

-----------------------------------------------------------------------------
(* download_assets and download_gltf_directory *)

asset == assets[i]

\* asset.get('type', 'glb')
asset_type == IF asset.type = "unset" THEN "glb" ELSE asset.type

\* asset.get('category', 'uncategorized')
Category(a) == IF a.category = "unset" THEN "uncategorized" ELSE a.category

\* assets_dir / category / name
AssetDest(a) == <<Category(a), a.name>>

\* re.match(r'https://github\.com/([^/]+)/([^/]+)/tree/([^/]+)/(.+)', tree_url)
GithubTreeMatch(url) ==
    /\ Len(url) >= 8
    /\ url[1] = <<"https:">>
    /\ url[2] = <<"">>
    /\ url[3] = <<"github", "com">>
    /\ url[4] # <<"">>
    /\ url[5] # <<"">>
    /\ url[6] = <<"tree">>
    /\ url[7] # <<"">>
    /\ ~(Len(url) = 8 /\ url[8] = <<"">>)

AssetsLoad ==
    /\ script = "assets"
    /\ pc = "load"
    /\ IF toml # "ok"
       THEN exit_code' = "1" /\ pc' = "done" /\ assets_dir' = assets_dir
       ELSE IF assets = <<>>
       THEN exit_code' = "0" /\ pc' = "done" /\ assets_dir' = assets_dir
       ELSE exit_code' = exit_code /\ pc' = "a_loop" /\ assets_dir' = TRUE
    /\ failed_assets' = <<>>
    /\ i' = 1
    /\ UNCHANGED <<script, runVars, gitVars, toml, external, dest_dir, extractVars, depsVars, gltfVars,
                   assets, sample_assets, asset_dest_dir, total, succeeded, net,
                   outcomes>>

\* lines 198-202
AssetNoUrl ==
    /\ script = "assets"
    /\ pc = "a_loop"
    /\ i <= Len(assets)
    /\ NotUrl(asset.url)
    /\ failed_assets' = Append(failed_assets, asset.name)
    /\ outcomes' = Append(outcomes, Outcome(asset.name, "no_url"))
    /\ i' = i + 1
    /\ UNCHANGED <<script, runVars, gitVars, pc, toml, external, dest_dir, extractVars, depsVars, gltfVars,
                   assets, sample_assets, assets_dir, asset_dest_dir, summaryVars, net>>

\* asset_dest_dir.mkdir(parents=True, exist_ok=True)
MkAssetDest(fs, d) == [fs EXCEPT ![d].exists = TRUE]

\* download_file(url, dest) stored the file
Stored(fs, d, file_name) ==
    [fs EXCEPT ![d].tree = Put(fs[d].tree, {<<file_name>>}, file_name)]

\* lines 205-213 and 221-224, asset_type == 'glb'
AssetGlb ==
    /\ script = "assets"
    /\ pc = "a_loop"
    /\ i <= Len(assets)
    /\ ~NotUrl(asset.url)
    /\ asset_type = "glb"
    /\ asset_dest_dir' = AssetDest(asset)
    /\ net' = Append(net, [idx |-> i, kind |-> "file", name |-> <<asset.name, "glb">>])
    /\ \E ok \in BOOLEAN :
          IF ok
          THEN /\ sample_assets' = Stored(MkAssetDest(sample_assets, AssetDest(asset)),
                                          AssetDest(asset), <<asset.name, "glb">>)
               /\ failed_assets' = failed_assets
               /\ outcomes' = Append(outcomes, Outcome(asset.name, "ok"))
          ELSE /\ sample_assets' = MkAssetDest(sample_assets, AssetDest(asset))
               /\ failed_assets' = Append(failed_assets, asset.name)
               /\ outcomes' = Append(outcomes, Outcome(asset.name, "download_failed"))
    /\ i' = i + 1
    /\ UNCHANGED <<script, runVars, gitVars, pc, toml, external, dest_dir, extractVars, depsVars, gltfVars,
                   assets, assets_dir, summaryVars>>

\* lines 205-208 and 217-224, any other asset_type: the name is appended at line
\* 219 and again at line 222, success still being False
AssetUnknownType ==
    /\ script = "assets"
    /\ pc = "a_loop"
    /\ i <= Len(assets)
    /\ ~NotUrl(asset.url)
    /\ asset_type \notin {"glb", "gltf"}
    /\ asset_dest_dir' = AssetDest(asset)
    /\ sample_assets' = MkAssetDest(sample_assets, AssetDest(asset))
    /\ failed_assets' = Append(Append(failed_assets, asset.name), asset.name)
    /\ outcomes' = Append(outcomes, Outcome(asset.name, "unknown_type"))
    /\ i' = i + 1
    /\ UNCHANGED <<script, runVars, gitVars, pc, toml, external, dest_dir, extractVars, depsVars, gltfVars,
                   assets, assets_dir, summaryVars, net>>

\* lines 205-208 and 214-216: the call of download_gltf_directory
AssetGltf ==
    /\ script = "assets"
    /\ pc = "a_loop"
    /\ i <= Len(assets)
    /\ ~NotUrl(asset.url)
    /\ asset_type = "gltf"
    /\ asset_dest_dir' = AssetDest(asset)
    /\ sample_assets' = MkAssetDest(sample_assets, AssetDest(asset))
    /\ pc' = "gltf_start"
    /\ UNCHANGED <<script, runVars, gitVars, toml, i, external, dest_dir, extractVars, depsVars, gltfVars,
                   assets, failed_assets, assets_dir, summaryVars, net, outcomes>>

\* lines 109-126 and 140-142: the URL check and the listing request
GltfListing ==
    /\ pc = "gltf_start"
    /\ fetched' = <<>>
    /\ IF ~GithubTreeMatch(asset.url)
       THEN success' = FALSE /\ pc' = "gltf_return" /\ listing' = "invalid_url"
            /\ UNCHANGED <<files, fi, net>>
       ELSE /\ net' = Append(net, [idx |-> i, kind |-> "listing", name |-> <<>>])
            /\ \E resp \in Responses :
                  /\ listing' = resp.kind
                  /\ IF resp.kind = "list"
                     THEN files' = resp.files /\ fi' = 1 /\ success' = TRUE
                          /\ pc' = "gltf_loop"
                     ELSE success' = FALSE /\ pc' = "gltf_return"
                          /\ UNCHANGED <<files, fi>>
    /\ UNCHANGED <<script, runVars, gitVars, toml, i, external, dest_dir, extractVars, depsVars,
                   assetsVars, summaryVars, outcomes>>

\* the loop is left at the first member fetch that fails
GltfMemberBreak ==
    /\ pc = "gltf_loop"
    /\ fi <= Len(files)
    /\ IF files[fi].type = "file"
       THEN /\ net' = Append(net, [idx |-> i, kind |-> "file", name |-> files[fi].name])
            /\ \E ok \in BOOLEAN :
                  /\ fetched' = Append(fetched, [name |-> files[fi].name, ok |-> ok])
                  /\ IF ok
                     THEN /\ sample_assets' =
                                 Stored(sample_assets, asset_dest_dir, files[fi].name)
                          /\ success' = success
                          /\ pc' = pc
                     ELSE /\ sample_assets' = sample_assets
                          /\ success' = FALSE
                          /\ pc' = "gltf_return"
       ELSE UNCHANGED <<pc, net, sample_assets, success, fetched>>
    /\ fi' = fi + 1
    /\ UNCHANGED <<script, runVars, gitVars, toml, i, external, dest_dir, extractVars, depsVars, files,
                   listing, assets, failed_assets, assets_dir, asset_dest_dir,
                   summaryVars, outcomes>>

\* lines 129-136: one iteration of the for loop over the listing
GltfMember ==
    /\ pc = "gltf_loop"
    /\ fi <= Len(files)
    /\ IF files[fi].type = "file"
       THEN /\ net' = Append(net, [idx |-> i, kind |-> "file", name |-> files[fi].name])
            /\ \E ok \in BOOLEAN :
                  /\ fetched' = Append(fetched, [name |-> files[fi].name, ok |-> ok])
                  /\ IF ok
                     THEN /\ sample_assets' =
                                 Stored(sample_assets, asset_dest_dir, files[fi].name)
                          /\ success' = success
                     ELSE /\ sample_assets' = sample_assets
                          /\ success' = FALSE
       ELSE UNCHANGED <<net, sample_assets, success, fetched>>
    /\ fi' = fi + 1
    /\ UNCHANGED <<script, runVars, gitVars, pc, toml, i, external, dest_dir, extractVars, depsVars, files,
                   listing, assets, failed_assets, assets_dir, asset_dest_dir,
                   summaryVars, outcomes>>

\* line 138
GltfReturn ==
    /\ pc = "gltf_loop"
    /\ fi > Len(files)
    /\ pc' = "gltf_return"
    /\ UNCHANGED <<script, runVars, gitVars, toml, i, external, dest_dir, extractVars, depsVars, gltfVars,
                   assetsVars, summaryVars, net, outcomes>>

\* lines 216 and 221-224
AssetAfterGltf ==
    /\ pc = "gltf_return"
    /\ failed_assets' = IF success THEN failed_assets
                                   ELSE Append(failed_assets, asset.name)
    /\ outcomes' = Append(outcomes, Outcome(asset.name,
                       IF success THEN "ok" ELSE "gltf_failed"))
    /\ i' = i + 1
    /\ pc' = "a_loop"
    /\ UNCHANGED <<script, runVars, gitVars, toml, external, dest_dir, extractVars, depsVars, gltfVars,
                   assets, sample_assets, assets_dir, asset_dest_dir, summaryVars, net>>

\* lines 230-243
AssetsSummary ==
    /\ script = "assets"
    /\ pc = "a_loop"
    /\ i > Len(assets)
    /\ total' = Len(assets)
    /\ succeeded' = total' - Len(failed_assets)
    /\ exit_code' = ExitCode(failed_assets)
    /\ pc' = "done"
    /\ UNCHANGED <<script, runVars, gitVars, toml, i, external, dest_dir, extractVars, depsVars, gltfVars,
                   assetsVars, net, outcomes>>

-----------------------------------------------------------------------------
(* The scripts: one run of download_dependencies or of download_assets *)

AssetDests == {AssetDest(a) : a \in AssetCatalogue}

NoExtraction ==
    /\ archive_name = <<>>
    /\ staged = <<>>
    /\ members = <<>>
    /\ strip_components = 0
    /\ mi = 0
    /\ extract_ret = "none"

NoGltf ==
    /\ files = <<>>
    /\ fi = 0
    /\ success = FALSE
    /\ listing = "none"
    /\ fetched = <<>>

NoSummary ==
    /\ total = 0
    /\ succeeded = 0
    /\ exit_code = "none"
    /\ net = <<>>
    /\ outcomes = <<>>

FirstRun ==
    /\ run = 1
    /\ past = <<>>

NoSubtrees ==
    /\ update = FALSE
    /\ config_file = "absent"
    /\ subtrees = <<>>
    /\ prefixes = {}
    /\ success_count = 0
    /\ git_log = <<>>
    /\ returns = <<>>

InitDeps ==
    /\ script = "deps"
    /\ pc = "load"
    /\ \/ toml \in {"absent", "invalid"} /\ dependencies = <<>>
       \/ toml = "ok" /\ dependencies \in SeqsUpTo(DepCatalogue, MaxEntries)
    /\ i = 1
    /\ failed_deps = <<>>
    /\ external \in [Names -> DirStates]
    /\ temp_dirs = {}
    /\ dest_dir = "n1"
    /\ dd_ret = "none"
    /\ assets = <<>>
    /\ failed_assets = <<>>
    /\ sample_assets = [d \in AssetDests |-> [exists |-> FALSE, tree |-> EmptyTree]]
    /\ assets_dir = FALSE
    /\ asset_dest_dir = <<>>
    /\ NoExtraction
    /\ NoGltf
    /\ NoSummary
    /\ FirstRun
    /\ NoSubtrees

InitAssets ==
    /\ script = "assets"
    /\ pc = "load"
    /\ \/ toml \in {"absent", "invalid"} /\ assets = <<>>
       \/ toml = "ok" /\ assets \in SeqsUpTo(AssetCatalogue, MaxEntries)
    /\ i = 1
    /\ failed_assets = <<>>
    /\ sample_assets \in [AssetDests -> AssetDirStates]
    /\ assets_dir = (\E d \in AssetDests : sample_assets[d].exists)
    /\ asset_dest_dir = <<>>
    /\ dependencies = <<>>
    /\ failed_deps = <<>>
    /\ external = [n \in Names |-> [exists |-> FALSE, tree |-> EmptyTree]]
    /\ temp_dirs = {}
    /\ dest_dir = "n1"
    /\ dd_ret = "none"
    /\ NoExtraction
    /\ NoGltf
    /\ NoSummary
    /\ FirstRun
    /\ NoSubtrees

Init == InitDeps \/ InitAssets

Next ==
    \/ DepsLoad
    \/ DepsNoUrl
    \/ DepsCall
    \/ DDExists
    \/ DDMkTemp
    \/ DDDownload
    \/ DDMkdirDest
    \/ ExtractArchive
    \/ ZipMember
    \/ ZipReturn
    \/ TarMember
    \/ TarReturn
    \/ DDAfterExtract
    \/ DDFinally
    \/ DepsAfterCall
    \/ DepsSummary
    \/ AssetsLoad
    \/ AssetNoUrl
    \/ AssetGlb
    \/ AssetUnknownType
    \/ AssetGltf
    \/ GltfListing
    \/ GltfMember
    \/ GltfReturn
    \/ AssetAfterGltf
    \/ AssetsSummary

Spec == Init /\ [][Next]_vars

-----------------------------------------------------------------------------
(* A direct extraction: extract_archive(archive_path, dest_dir, k) on any      *)
(* archive of up to MaxMembers members, into an empty destination             *)

MemberPaths ==
    { <<"w">>, <<"w", "a">>, <<"w", "s">>, <<"w", "s", "b">>,
      <<"v">>, <<"v", "a">>, <<"v", "a", "b">>, <<"a">> }

MemberU == {File(p) : p \in MemberPaths} \cup {Dir(p) : p \in MemberPaths}

\* an archive of a directory tree: no path twice, nothing below a file
WellFormed(a) ==
    /\ \A j, k \in 1..Len(a) : j # k => a[j].path # a[k].path
    /\ \A j, k \in 1..Len(a) :
           (j # k /\ a[j].path \in Prefixes(a[k].path)) => a[j].isdir

Archives == {a \in SeqsUpTo(MemberU, MaxMembers) : WellFormed(a)}

InitExtract ==
    /\ script = "extract"
    /\ pc = "extract_archive"
    /\ toml = "ok"
    /\ i = 1
    /\ dest_dir = "n1"
    /\ external = [n \in Names |-> [exists |-> n = "n1", tree |-> EmptyTree]]
    /\ \/ /\ archive_name \in { <<"pkg", "zip">>, <<"pkg", "tar", "gz">> }
          /\ staged \in Archives
       \/ /\ archive_name \in { <<"pkg", "tgz">>, <<"pkg", "rar">>, <<"zip">> }
          /\ staged \in {ArchiveWrapped, ArchiveTwoRoots}
    /\ strip_components \in 0..MaxStrip
    /\ members = <<>>
    /\ mi = 0
    /\ extract_ret = "none"
    /\ dependencies = <<>>
    /\ failed_deps = <<>>
    /\ temp_dirs = {}
    /\ dd_ret = "none"
    /\ assets = <<>>
    /\ failed_assets = <<>>
    /\ sample_assets = [d \in AssetDests |-> [exists |-> FALSE, tree |-> EmptyTree]]
    /\ assets_dir = FALSE
    /\ asset_dest_dir = <<>>
    /\ NoGltf
    /\ NoSummary
    /\ FirstRun
    /\ NoSubtrees

NextExtract ==
    \/ ExtractArchive
    \/ ZipMember
    \/ ZipReturn
    \/ TarMember
    \/ TarReturn
    \/ ExtractFinished

SpecExtract == InitExtract /\ [][NextExtract]_vars

\* the scripts are sequential programs: a run that can take a step takes it
FairSpec == Spec /\ WF_vars(Next)

-----------------------------------------------------------------------------
(* Successive runs of download_dependencies on the same manifest: what a run  *)
(* left in external/ is what the next run finds                               *)

PastOf(os) == [j \in 1..Len(os) |-> [run |-> run, name |-> os[j].name,
                                     result |-> os[j].result]]

\* the script is started again
DepsRerun ==
    /\ script = "deps"
    /\ pc = "done"
    /\ run < MaxRuns
    /\ run' = run + 1
    /\ past' = past \o PastOf(outcomes)
    /\ pc' = "load"
    /\ i' = 1
    /\ failed_deps' = <<>>
    /\ dd_ret' = "none"
    /\ archive_name' = <<>>
    /\ staged' = <<>>
    /\ members' = <<>>
    /\ strip_components' = 0
    /\ mi' = 0
    /\ extract_ret' = "none"
    /\ total' = 0
    /\ succeeded' = 0
    /\ exit_code' = "none"
    /\ net' = <<>>
    /\ outcomes' = <<>>
    /\ UNCHANGED <<script, toml, dependencies, external, temp_dirs, dest_dir, gltfVars,
                   assetsVars, gitVars>>

NextRuns ==
    \/ DepsLoad
    \/ DepsNoUrl
    \/ DepsCall
    \/ DDExists
    \/ DDMkTemp
    \/ DDDownload
    \/ DDMkdirDest
    \/ ExtractArchive
    \/ ZipMember
    \/ ZipReturn
    \/ TarMember
    \/ TarReturn
    \/ DDAfterExtract
    \/ DDFinally
    \/ DepsAfterCall
    \/ DepsSummary
    \/ DepsRerun

SpecRuns == InitDeps /\ [][NextRuns]_vars

-----------------------------------------------------------------------------
(* setup_git_subtrees.py: main, setup_all_subtrees, add_subtree, update_subtree *)

Prefixes2 == {"p1", "p2"}

\* subtree.get("remote") is None or '' when remote is "none"
SubtreeCatalogue ==
    { [name |-> "n1", remote |-> "r1",   prefix |-> "p1", enabled |-> "unset"],
      [name |-> "n2", remote |-> "r2",   prefix |-> "p2", enabled |-> "true"],
      [name |-> "n2", remote |-> "r2",   prefix |-> "p1", enabled |-> "unset"],
      [name |-> "n1", remote |-> "none", prefix |-> "p1", enabled |-> "unset"],
      [name |-> "n2", remote |-> "r2",   prefix |-> "p2", enabled |-> "false"] }

\* create_example_config's one entry
ExampleSubtree ==
    [name |-> "example-lib", remote |-> "example", prefix |-> "external/example-lib",
     enabled |-> "false"]

\* [s for s in subtrees if s.get("enabled", True)]
EnabledOf(ss) == SelectSeq(ss, LAMBDA t : t.enabled # "false")

enabled_subtrees == EnabledOf(subtrees)

subtree == enabled_subtrees[i]

\* all([name, remote, prefix])
AllSet(t) == t.name # "none" /\ t.remote # "none" /\ t.prefix # "none"

\* what a git command answers: exit code 0, a non-zero exit code with 'already
\* exists' in stderr, or another non-zero exit code
GitResults == {"ok", "exists", "fail"}

Git(cmd, res) == Append(git_log, [idx |-> i, cmd |-> cmd, res |-> res])

Returned(ret) == Append(returns, [idx |-> i, ret |-> ret])

\* lines 219-223: check_git_repo
SubtreesMain ==
    /\ script = "subtrees"
    /\ pc = "main"
    /\ \E res \in {"ok", "fail"} :
          /\ git_log' = Append(git_log, [idx |-> 0, cmd |-> "rev_parse", res |-> res])
          /\ IF res = "ok"
             THEN pc' = "load" /\ exit_code' = exit_code
             ELSE pc' = "done" /\ exit_code' = "1"
    /\ UNCHANGED <<script, runVars, toml, i, external, dest_dir, extractVars, depsVars,
                   gltfVars, assetsVars, total, succeeded, net, outcomes, update,
                   config_file, subtrees, prefixes, success_count, returns>>

\* lines 169-184: load_config writes the example configuration when the file is
\* missing and loads that
SubtreesLoad ==
    /\ script = "subtrees"
    /\ pc = "load"
    /\ config_file' = IF config_file = "absent" THEN "ok" ELSE config_file
    /\ subtrees' = IF config_file = "absent" THEN <<ExampleSubtree>> ELSE subtrees
    /\ IF config_file = "invalid"
       THEN exit_code' = "1" /\ pc' = "done"
       ELSE IF subtrees' = <<>> \/ EnabledOf(subtrees') = <<>>
       THEN exit_code' = "0" /\ pc' = "done"
       ELSE exit_code' = exit_code /\ pc' = "s_loop"
    /\ success_count' = 0
    /\ i' = 1
    /\ UNCHANGED <<script, runVars, toml, external, dest_dir, extractVars, depsVars,
                   gltfVars, assetsVars, total, succeeded, net, outcomes, update,
                   prefixes, git_log, returns>>

\* lines 186-193: an entry without name, remote or prefix is skipped
SubtreeInvalid ==
    /\ script = "subtrees"
    /\ pc = "s_loop"
    /\ i <= Len(enabled_subtrees)
    /\ ~AllSet(subtree)
    /\ i' = i + 1
    /\ UNCHANGED <<script, runVars, gitVars, pc, toml, external, dest_dir, extractVars,
                   depsVars, gltfVars, assetsVars, summaryVars, net, outcomes>>

\* the step the loop takes when add_subtree / update_subtree returns False
ReturnFalse ==
    /\ returns' = Returned(FALSE)
    /\ i' = i + 1
    /\ pc' = "s_loop"
    /\ UNCHANGED <<prefixes, success_count>>

\* lines 86-90 and 199: the prefix directory exists, add_subtree returns False
AddPrefixExists ==
    /\ script = "subtrees"
    /\ pc = "s_loop"
    /\ i <= Len(enabled_subtrees)
    /\ AllSet(subtree)
    /\ ~update
    /\ subtree.prefix \in prefixes
    /\ ReturnFalse
    /\ UNCHANGED <<script, runVars, toml, external, dest_dir, extractVars, depsVars,
                   gltfVars, assetsVars, summaryVars, net, outcomes, update,
                   config_file, subtrees, git_log>>

\* the remote add never counts as failed
RemoteAddFailedNever(res) == FALSE

\* returncode != 0 and "already exists" not in stderr
RemoteAddFailed(res) == res = "fail"

\* lines 93-100: git remote add
AddRemote ==
    /\ script = "subtrees"
    /\ pc = "s_loop"
    /\ i <= Len(enabled_subtrees)
    /\ AllSet(subtree)
    /\ ~update
    /\ subtree.prefix \notin prefixes
    /\ \E res \in GitResults :
          /\ git_log' = Git("remote_add", res)
          /\ IF RemoteAddFailed(res)
             THEN ReturnFalse
             ELSE pc' = "add_fetch" /\ UNCHANGED <<i, returns, prefixes, success_count>>
    /\ UNCHANGED <<script, runVars, toml, external, dest_dir, extractVars, depsVars,
                   gltfVars, assetsVars, summaryVars, net, outcomes, update,
                   config_file, subtrees>>

\* lines 103-110: git fetch
AddFetch ==
    /\ script = "subtrees"
    /\ pc = "add_fetch"
    /\ \E res \in GitResults :
          /\ git_log' = Git("fetch", res)
          /\ IF res # "ok"
             THEN ReturnFalse
             ELSE pc' = "add_subtree"
                  /\ UNCHANGED <<i, returns, prefixes, success_count>>
    /\ UNCHANGED <<script, runVars, toml, external, dest_dir, extractVars, depsVars,
                   gltfVars, assetsVars, summaryVars, net, outcomes, update,
                   config_file, subtrees>>

\* lines 113-126 and 199-200: git subtree add
AddSubtree ==
    /\ script = "subtrees"
    /\ pc = "add_subtree"
    /\ \E res \in GitResults :
          /\ git_log' = Git("subtree_add", res)
          /\ IF res # "ok"
             THEN ReturnFalse
             ELSE /\ returns' = Returned(TRUE)
                  /\ prefixes' = prefixes \cup {subtree.prefix}
                  /\ success_count' = success_count + 1
                  /\ i' = i + 1
                  /\ pc' = "s_loop"
    /\ UNCHANGED <<script, runVars, toml, external, dest_dir, extractVars, depsVars,
                   gltfVars, assetsVars, summaryVars, net, outcomes, update,
                   config_file, subtrees>>

\* lines 135-139 and 196: the prefix directory is missing, update_subtree
\* returns False
UpdatePrefixMissing ==
    /\ script = "subtrees"
    /\ pc = "s_loop"
    /\ i <= Len(enabled_subtrees)
    /\ AllSet(subtree)
    /\ update
    /\ subtree.prefix \notin prefixes
    /\ ReturnFalse
    /\ UNCHANGED <<script, runVars, toml, external, dest_dir, extractVars, depsVars,
                   gltfVars, assetsVars, summaryVars, net, outcomes, update,
                   config_file, subtrees, git_log>>

\* lines 142-149: git fetch
UpdateFetch ==
    /\ script = "subtrees"
    /\ pc = "s_loop"
    /\ i <= Len(enabled_subtrees)
    /\ AllSet(subtree)
    /\ update
    /\ subtree.prefix \in prefixes
    /\ \E res \in GitResults :
          /\ git_log' = Git("fetch", res)
          /\ IF res # "ok"
             THEN ReturnFalse
             ELSE pc' = "update_pull"
                  /\ UNCHANGED <<i, returns, prefixes, success_count>>
    /\ UNCHANGED <<script, runVars, toml, external, dest_dir, extractVars, depsVars,
                   gltfVars, assetsVars, summaryVars, net, outcomes, update,
                   config_file, subtrees>>

\* lines 152-165 and 196-197: git subtree pull
UpdatePull ==
    /\ script = "subtrees"
    /\ pc = "update_pull"
    /\ \E res \in GitResults :
          /\ git_log' = Git("subtree_pull", res)
          /\ IF res # "ok"
             THEN ReturnFalse
             ELSE /\ returns' = Returned(TRUE)
                  /\ success_count' = success_count + 1
                  /\ i' = i + 1
                  /\ pc' = "s_loop"
                  /\ prefixes' = prefixes
    /\ UNCHANGED <<script, runVars, toml, external, dest_dir, extractVars, depsVars,
                   gltfVars, assetsVars, summaryVars, net, outcomes, update,
                   config_file, subtrees>>

\* lines 202-204 and 238-240: the summary line, and main returns
SubtreesSummary ==
    /\ script = "subtrees"
    /\ pc = "s_loop"
    /\ i > Len(enabled_subtrees)
    /\ pc' = "done"
    /\ exit_code' = "0"
    /\ UNCHANGED <<script, runVars, gitVars, toml, i, external, dest_dir, extractVars,
                   depsVars, gltfVars, assetsVars, total, succeeded, net, outcomes>>

InitSubtrees ==
    /\ script = "subtrees"
    /\ pc = "main"
    /\ update \in BOOLEAN
    /\ \/ config_file \in {"absent", "invalid"} /\ subtrees = <<>>
       \/ config_file = "ok" /\ subtrees \in SeqsUpTo(SubtreeCatalogue, MaxEntries)
    /\ prefixes \in SUBSET Prefixes2
    /\ success_count = 0
    /\ git_log = <<>>
    /\ returns = <<>>
    /\ toml = "absent"
    /\ i = 1
    /\ dest_dir = "n1"
    /\ external = [n \in Names |-> [exists |-> FALSE, tree |-> EmptyTree]]
    /\ dependencies = <<>>
    /\ failed_deps = <<>>
    /\ temp_dirs = {}
    /\ dd_ret = "none"
    /\ assets = <<>>
    /\ failed_assets = <<>>
    /\ sample_assets = [d \in AssetDests |-> [exists |-> FALSE, tree |-> EmptyTree]]
    /\ assets_dir = FALSE
    /\ asset_dest_dir = <<>>
    /\ NoExtraction
    /\ NoGltf
    /\ NoSummary
    /\ FirstRun

NextSubtrees ==
    \/ SubtreesMain
    \/ SubtreesLoad
    \/ SubtreeInvalid
    \/ AddPrefixExists
    \/ AddRemote
    \/ AddFetch
    \/ AddSubtree
    \/ UpdatePrefixMissing
    \/ UpdateFetch
    \/ UpdatePull
    \/ SubtreesSummary

SpecSubtrees == InitSubtrees /\ [][NextSubtrees]_vars

-----------------------------------------------------------------------------
(* Properties *)

FailedResults ==
    {"no_url", "download_failed", "extract_failed", "unknown_type", "gltf_failed"}

IsFailure(o) == o.result \in FailedResults

FailedEntries == SelectSeq(outcomes, IsFailure)

NamesOf(os) == [j \in 1..Len(os) |-> os[j].name]

\* the run went through the loop and printed its summary
DepsSummarised == script = "deps" /\ pc = "done" /\ toml = "ok" /\ enabled_deps # <<>>

AssetsSummarised == script = "assets" /\ pc = "done" /\ toml = "ok" /\ assets # <<>>

\* C1: when download_dependencies has processed its N enabled entries and M of
\* them failed (no url, download failure, extraction failure), total = N,
\* succeeded = N - M, and failed_deps is the names of the M failed entries, each
\* once, in manifest order.
C1_DepsSummary ==
    DepsSummarised =>
        /\ Len(outcomes) = Len(enabled_deps)
        /\ \A j \in 1..Len(outcomes) :
               outcomes[j].idx = j /\ outcomes[j].name = enabled_deps[j].name
        /\ total = Len(enabled_deps)
        /\ succeeded = total - Len(FailedEntries)
        /\ failed_deps = NamesOf(FailedEntries)

\* a run of two entries that both failed, in different ways
C1_Witness ==
    /\ DepsSummarised
    /\ total = 2
    /\ outcomes[1].result = "extract_failed"
    /\ outcomes[2].result = "no_url"
    /\ failed_deps = <<"n2", "n1">>

\* C2: when download_assets has processed its N assets, every failed asset's
\* name is in failed_assets exactly once, in manifest order, and succeeded is N
\* minus the number of assets that failed.
C2_AssetsSummary ==
    AssetsSummarised =>
        /\ failed_assets = NamesOf(FailedEntries)
        /\ succeeded = Len(assets) - Len(FailedEntries)

\* C3: once download_dependency has returned, the staging directory it created
\* is gone, whatever the outcome; between calls and after the run no staging
\* directory exists.
C3_StagingRemoved ==
    /\ pc = "dd_return" => dest_dir \notin temp_dirs
    /\ pc \in {"loop", "done"} => temp_dirs = {}

\* download_dependency returns False after a failed extraction
C3_Witness ==
    /\ pc = "dd_return"
    /\ dd_ret = "false"
    /\ outcomes # <<>>
    /\ outcomes[Len(outcomes)].result = "extract_failed"
    /\ \E r \in 1..Len(net) : net[r].idx = i

\* C4: download_dependency skips exactly when the destination exists and holds
\* an entry: it then returns True with no download, no staging directory and
\* the destination untouched; otherwise it creates the staging directory and
\* attempts the download.
C4_CacheGate ==
    [][ /\ pc = "dd_check" =>
              IF external[dest_dir].exists /\ DOMAIN external[dest_dir].tree # {}
              THEN /\ pc' = "dd_return"
                   /\ dd_ret' = "true"
                   /\ net' = net
                   /\ temp_dirs' = temp_dirs
                   /\ external' = external
              ELSE /\ pc' = "dd_download"
                   /\ dest_dir \in temp_dirs'
        /\ pc = "dd_download" =>
              net' = Append(net, [idx |-> i, kind |-> "archive", name |-> archive_name])
      ]_vars

\* a call that was skipped
C4_Witness ==
    /\ pc = "dd_return"
    /\ dd_ret = "true"
    /\ outcomes[Len(outcomes)].result = "cached"
    /\ external[dest_dir].tree = OldTree
    /\ \A r \in 1..Len(net) : net[r].idx # i

\* C5: download_assets passes over a glb or gltf asset whose destination
\* directory already holds an entry: no network call for it, and it is not
\* recorded as failed.
C5_AssetsIdempotent ==
    [][ ( /\ script = "assets"
          /\ pc = "a_loop"
          /\ i <= Len(assets)
          /\ assets[i].url \notin {NoUrl, EmptyUrl}
          /\ assets[i].type \in {"unset", "glb", "gltf"}
          /\ DOMAIN sample_assets[AssetDest(assets[i])].tree # {} )
        => /\ net' = net
           /\ failed_assets' = failed_assets
           /\ i' = i + 1
      ]_vars

\* C6: once the manifest has loaded, download_dependencies and download_assets
\* end with exit status 0 exactly when the failed-name list is empty at the end
\* of the run, and with 1 otherwise.
C6_ExitStatus ==
    (script \in {"deps", "assets"} /\ toml = "ok" /\ pc = "done") =>
        /\ exit_code \in {"0", "1"}
        /\ script = "deps" => (exit_code = "0" <=> failed_deps = <<>>)
        /\ script = "assets" => (exit_code = "0" <=> failed_assets = <<>>)

\* a run of download_assets that ends with status 1
C6_Witness == AssetsSummarised /\ exit_code = "1" /\ failed_assets # <<>>

\* C7: every run of download_dependencies that enters its loop reaches the
\* summary, having processed every enabled entry exactly once and in manifest
\* order, whatever the outcome of each entry.
C7_EveryEntryProcessed ==
    (script = "deps" /\ pc = "loop") ~>
        /\ pc = "done"
        /\ exit_code # "none"
        /\ Len(outcomes) = Len(enabled_deps)
        /\ \A j \in 1..Len(outcomes) :
               outcomes[j].idx = j /\ outcomes[j].name = enabled_deps[j].name

\* the first entry failed and the second was still downloaded and extracted
C7_Witness ==
    /\ DepsSummarised
    /\ Len(outcomes) = 2
    /\ outcomes[1].result \in {"download_failed", "extract_failed"}
    /\ outcomes[2].result = "ok"

\* C8: an entry whose url is missing or empty is recorded as failed at once: the
\* step makes no network call and creates neither a staging directory nor a
\* destination directory, in download_dependencies and in download_assets.
C8_NoUrlNoNetwork ==
    [][ /\ ( /\ script = "deps"
             /\ pc = "loop"
             /\ i <= Len(enabled_deps)
             /\ enabled_deps[i].url \in {NoUrl, EmptyUrl} )
           => /\ failed_deps' = Append(failed_deps, enabled_deps[i].name)
              /\ i' = i + 1
              /\ pc' = "loop"
              /\ net' = net
              /\ temp_dirs' = temp_dirs
              /\ external' = external
        /\ ( /\ script = "assets"
             /\ pc = "a_loop"
             /\ i <= Len(assets)
             /\ assets[i].url \in {NoUrl, EmptyUrl} )
           => /\ failed_assets' = Append(failed_assets, assets[i].name)
              /\ i' = i + 1
              /\ pc' = "a_loop"
              /\ net' = net
              /\ sample_assets' = sample_assets
      ]_vars

\* an asset with url = '' has just been recorded as failed
C8_Witness ==
    /\ script = "assets"
    /\ pc = "a_loop"
    /\ i = 2
    /\ assets[1].url = EmptyUrl
    /\ failed_assets = <<assets[1].name>>
    /\ ~sample_assets[AssetDest(assets[1])].exists
    /\ net = <<>>

InMemberLoop == pc \in {"extract_zip", "extract_tar"} /\ mi <= Len(members)

Extracted == pc = "extract_return" /\ (IsZipName(archive_name) \/ IsTarName(archive_name))

StrippedPath(m) == SubSeq(m.path, strip_components + 1, Len(m.path))

MemberFiles == { <<members[j].path, members[j].data>> :
                     j \in {k \in 1..Len(members) : ~members[k].isdir} }

TreeFiles(t) == { <<p, t[p]>> : p \in {q \in DOMAIN t : t[q] # DirMark} }

\* C10: with strip_components = 0 and an empty destination, extraction returns
\* True and the files of the destination are exactly the file members of the
\* archive, path and content unchanged; every directory member is there as a
\* directory; and nothing else is there but ancestors of members.
C10_RoundTrip ==
    (Extracted /\ strip_components = 0) =>
        /\ extract_ret = "true"
        /\ TreeFiles(Tree) = MemberFiles
        /\ \A j \in 1..Len(members) :
               members[j].isdir => IsDir(Tree, members[j].path)
        /\ \A p \in DOMAIN Tree :
               \E j \in 1..Len(members) : p \in Prefixes(members[j].path)

\* a tar archive of three members, one nested two levels deep
C10_Witness ==
    /\ Extracted
    /\ strip_components = 0
    /\ archive_name = <<"pkg", "tar", "gz">>
    /\ members = ArchiveWrapped
    /\ DOMAIN Tree = { <<"w">>, <<"w", "a">>, <<"w", "s">>, <<"w", "s", "b">> }

\* the staged file's name ends in none of .zip, .tar.gz, .tgz
UnsupportedName(n) ==
    /\ ~(Len(n) >= 2 /\ n[Len(n)] \in {"zip", "tgz"})
    /\ ~(Len(n) >= 3 /\ n[Len(n) - 1] = "tar" /\ n[Len(n)] = "gz")

\* the entry before the loop index was downloaded under an unsupported name
UnsupportedEntryDone ==
    /\ script = "deps"
    /\ pc = "loop"
    /\ i > 1
    /\ i - 1 <= Len(enabled_deps)
    /\ Len(outcomes) = i - 1
    /\ enabled_deps[i - 1].url \notin {NoUrl, EmptyUrl}
    /\ UnsupportedName(ArchiveName(enabled_deps[i - 1].name, enabled_deps[i - 1].url))
    /\ outcomes[i - 1].result \notin {"cached", "download_failed"}

\* C11: extract_archive on a staged file whose name ends in none of .zip,
\* .tar.gz, .tgz returns False in one step, reading no member and leaving the
\* destination as it is; download_dependency then returns False, the entry's
\* name is appended to failed_deps, and the staging directory is removed.
C11_UnsupportedSuffix ==
    /\ [][ (pc = "extract_archive" /\ UnsupportedName(archive_name))
           => /\ pc' = "extract_return"
              /\ extract_ret' = "false"
              /\ external' = external
              /\ members' = members
              /\ mi' = mi ]_vars
    /\ []( UnsupportedEntryDone =>
             /\ failed_deps # <<>>
             /\ failed_deps[Len(failed_deps)] = enabled_deps[i - 1].name
             /\ outcomes[i - 1].result = "extract_failed"
             /\ temp_dirs = {}
             /\ external[enabled_deps[i - 1].name].tree = EmptyTree )

\* pkg.rar was downloaded for the first entry and rejected
C11_Witness ==
    /\ UnsupportedEntryDone
    /\ i = 2
    /\ enabled_deps[1].url = UrlRar
    /\ failed_deps = <<"n1">>
    /\ Len(net) = 1
    /\ net[1].name = <<"pkg", "rar">>
    /\ external["n1"] = [exists |-> TRUE, tree |-> EmptyTree]
    /\ temp_dirs = {}

\* the names of the members of type 'file' among the first n of the listing
FileNames(fs, n) ==
    LET sel == SelectSeq(SubSeq(fs, 1, n), LAMBDA f : f.type = "file")
    IN  [j \in 1..Len(sel) |-> sel[j].name]

\* the member fetches made on the network for the entry at index k
NetFileNames(k) ==
    LET sel == SelectSeq(net, LAMBDA r : r.idx = k /\ r.kind = "file")
    IN  [j \in 1..Len(sel) |-> sel[j].name]

\* C12: download_gltf_directory with a listing that is a list fetches the
\* members of type 'file', each once and in listing order, whether or not an
\* earlier fetch failed, fetches no member of another type, and returns True
\* exactly when every one of these fetches succeeded; when the listing request
\* fails or answers something that is no list, it fetches nothing and returns
\* False.
C12_GltfDirectory ==
    /\ pc = "gltf_loop" =>
           /\ listing = "list"
           /\ NamesOf(fetched) = FileNames(files, fi - 1)
           /\ NetFileNames(i) = FileNames(files, fi - 1)
    /\ pc = "gltf_return" =>
           IF listing = "list"
           THEN /\ NamesOf(fetched) = FileNames(files, Len(files))
                /\ NetFileNames(i) = FileNames(files, Len(files))
                /\ success <=> \A j \in 1..Len(fetched) : fetched[j].ok
           ELSE /\ fetched = <<>>
                /\ NetFileNames(i) = <<>>
                /\ ~success

\* the first member's fetch failed, the directory was passed over, and the last
\* member was still fetched and stored
C12_Witness ==
    /\ pc = "gltf_return"
    /\ listing = "list"
    /\ Len(files) = 3
    /\ fetched = << [name |-> <<"scene", "gltf">>, ok |-> FALSE],
                    [name |-> <<"scene", "bin">>, ok |-> TRUE] >>
    /\ ~success
    /\ << <<"scene", "bin">> >> \in DOMAIN sample_assets[asset_dest_dir].tree

\* the manifest entries that are not switched off, in manifest order
EnabledEntries ==
    SelectSeq(dependencies, LAMBDA d : d.enabled = "true" \/ d.enabled = "unset")

\* every manifest entry of this name has enabled = false
OnlyDisabled(n) ==
    /\ \E j \in 1..Len(dependencies) : dependencies[j].name = n
    /\ \A j \in 1..Len(dependencies) :
           dependencies[j].name = n => dependencies[j].enabled = "false"

\* C13: download_dependencies processes exactly the entries whose enabled flag
\* is true or absent: each outcome and each download belongs to one of them, the
\* summary total is their number, and a name carried only by entries with
\* enabled = false is never staged, downloaded, extracted into, or listed as
\* failed.
C13_DisabledSkipped ==
    /\ [][ \A n \in Names : OnlyDisabled(n) => external'[n] = external[n] ]_vars
    /\ []( script = "deps" =>
             /\ Len(outcomes) <= Len(EnabledEntries)
             /\ \A j \in 1..Len(outcomes) : outcomes[j].name = EnabledEntries[j].name
             /\ \A r \in 1..Len(net) :
                    /\ net[r].idx <= Len(EnabledEntries)
                    /\ net[r].name = ArchiveName(EnabledEntries[net[r].idx].name,
                                                 EnabledEntries[net[r].idx].url)
             /\ \A n \in Names :
                    OnlyDisabled(n) =>
                        /\ n \notin temp_dirs
                        /\ \A j \in 1..Len(failed_deps) : failed_deps[j] # n
             /\ (pc = "done" /\ toml = "ok" /\ EnabledEntries # <<>>) =>
                    /\ total = Len(EnabledEntries)
                    /\ Len(outcomes) = Len(EnabledEntries) )

\* a manifest of a disabled entry and an entry without the key: only the second
\* was downloaded and extracted
C13_Witness ==
    /\ script = "deps"
    /\ pc = "done"
    /\ Len(dependencies) = 2
    /\ dependencies[1].enabled = "false"
    /\ dependencies[2].enabled = "unset"
    /\ dependencies[1].name = "n2"
    /\ dependencies[2].name = "n1"
    /\ total = 1
    /\ outcomes = << [idx |-> 1, name |-> "n1", result |-> "ok"] >>
    /\ Len(net) = 1
    /\ ~external["n2"].exists
    /\ failed_deps = <<>>

\* every call of download_dependency so far, over all runs, in order
History == past \o PastOf(outcomes)

\* the last call before the k-th for the same artifact, 0 if there is none
LastCallBefore(k) ==
    LET js == {j \in 1..(k - 1) : History[j].name = History[k].name}
    IN  IF js = {} THEN 0 ELSE CHOOSE j \in js : \A l \in js : l <= j

\* C14: when download_dependency returned False for an artifact in one run
\* (download failure, unsupported suffix, or an extraction that failed after
\* writing some members), the next run's call for that artifact is not skipped
\* by the already-exists check, so it is never reported as succeeded without an
\* extraction that completed.
C14_FailureNotCached ==
    \A k \in 1..Len(History) :
        (History[k].result = "cached" /\ LastCallBefore(k) # 0) =>
            LET j == LastCallBefore(k)
            IN  History[j].run < History[k].run =>
                    History[j].result \notin {"download_failed", "extract_failed"}

\* C15: extract_zip and extract_tar leave the same destination for the same
\* members and the same strip_components: what the extraction that ran left in
\* the destination is what the other format's extraction of these members
\* leaves, directory entries and members that share a stripped path included.
C15_SameNormalization ==
    Extracted =>
        IF IsZipName(archive_name)
        THEN \A lenient \in BOOLEAN :
                 TarExtractAll(EmptyTree, members, strip_components, lenient).tree = Tree
        ELSE ZipExtractAll(EmptyTree, members, strip_components).tree = Tree

\* the git commands run for the entry at index k, in the order they were run
CommandsOf(k) == SelectSeq(git_log, LAMBDA g : g.idx = k)

AddOrder == <<"remote_add", "fetch", "subtree_add">>

\* the number of entries of the configuration that are not switched off
EnabledCount ==
    Cardinality({j \in 1..Len(subtrees) : subtrees[j].enabled \in {"true", "unset"}})

\* C16: add_subtree runs git remote add, git fetch and git subtree add in this
\* order and each at most once, and stops at the first step that fails: it runs
\* no git command when the prefix directory exists, runs fetch only after a
\* remote add that returned 0 or failed with 'already exists', runs subtree add
\* only after a fetch that returned 0, and returns True only after a subtree add
\* that returned 0; and setup_all_subtrees' success count is the number of
\* calls that returned True, which never exceeds the number of enabled subtrees.
C16_AddSubtreeOrder ==
    /\ [][ ( /\ script = "subtrees"
             /\ pc = "s_loop"
             /\ ~update
             /\ i <= Len(enabled_subtrees)
             /\ enabled_subtrees[i].prefix \in prefixes )
           => /\ git_log' = git_log
              /\ success_count' = success_count
              /\ pc' = "s_loop" ]_vars
    /\ []( (script = "subtrees" /\ ~update) =>
             \A k \in 1..Len(enabled_subtrees) :
                 LET cmds == CommandsOf(k)
                 IN  /\ Len(cmds) <= 3
                     /\ \A j \in 1..Len(cmds) : cmds[j].cmd = AddOrder[j]
                     /\ Len(cmds) >= 2 => cmds[1].res \in {"ok", "exists"}
                     /\ Len(cmds) >= 3 => cmds[2].res = "ok"
                     /\ \A r \in 1..Len(returns) :
                            (returns[r].idx = k /\ returns[r].ret) =>
                                Len(cmds) = 3 /\ cmds[3].res = "ok" )
    /\ []( script = "subtrees" =>
             /\ success_count = Cardinality({r \in 1..Len(returns) : returns[r].ret})
             /\ success_count <= EnabledCount )

\* the first subtree's remote already existed and it was added; the second
\* subtree's fetch failed, so no subtree add was run for it
C16_Witness ==
    /\ script = "subtrees"
    /\ pc = "done"
    /\ ~update
    /\ Len(enabled_subtrees) = 2
    /\ Len(CommandsOf(1)) = 3
    /\ [j \in 1..3 |-> CommandsOf(1)[j].res] = <<"exists", "ok", "ok">>
    /\ Len(CommandsOf(2)) = 2
    /\ CommandsOf(2)[2] = [idx |-> 2, cmd |-> "fetch", res |-> "fail"]
    /\ returns = << [idx |-> 1, ret |-> TRUE], [idx |-> 2, ret |-> FALSE] >>
    /\ success_count = 1

=============================================================================
